---- MODULE Spec2Model ----
(***************************************************************************)
(* distil: the batched summarizer (src/distil/llm.py, prompts.py) and the  *)
(* collection aggregator (src/distil/core.py).                             *)
(*                                                                         *)
(* Text is modelled as a sequence of tokens, so that concatenation is \o   *)
(* and a prompt can be taken apart again.  A token is a record whose field *)
(* "t" names its kind.  The summarization service is deterministic: the    *)
(* answer to a prompt is a function of the prompt.                         *)
(***************************************************************************)
EXTENDS Integers, Sequences, FiniteSets, TLC

VARIABLES
    items,                \* summarizer input: list of content items
    batch_size,           \* summarizer input
    reading_time,         \* summarizer input
    domain,               \* summarizer input (non-streaming variant only)
    pc,                   \* position of the running summarizer function
    gpc,                  \* position of the generate_distil_streaming generator
    calls,                \* log of the calls made to the summarization service
    failures,             \* number of service failures so far
    i,                    \* loop variable of the batch loop
    batch_summaries,      \* local of both batched summarizers
    bstate,               \* generate_distil_batched: notrun/running/returned/raised
    ret,                  \* value generate_distil_batched returned
    sstate,               \* generate_distil_batched_streaming: notrun/running/done
    out,                  \* chunks the streaming variant has yielded, in order
    user_prompt,          \* argument of the running generate_distil_streaming
    batch_summary,        \* local of generate_distil_batched_streaming
    pending,              \* chunks the open response stream has yet to deliver
    chunk_count,          \* local of generate_distil_streaming
    total_chars,          \* local of generate_distil_streaming
    first_chunk_received, \* local of generate_distil_streaming
    rss_feeds,            \* collect_content input: list of feed configs
    youtube_urls,         \* collect_content input
    days_back,            \* collect_content input
    min_items_threshold,  \* collect_content input
    verbose,              \* collect_content input
    transcript_dir,       \* the .vtt files in the transcript directory, in listing order
    cstate,               \* collect_content: idle/feeds/returned/raised
    fi,                   \* collect_content: index of the feed the loop is at
    collected,            \* collect_content: the items collected so far
    feed_health_report,   \* collect_content: feed name -> health entry
    fetch_log,            \* the feeds fetch_rss was invoked for, in order, with the outcome
    threshold_warning,    \* whether the below-threshold warning was printed
    runs,                 \* number of the collect_content call at hand
    fetch_args,           \* fetch_rss: the arguments of the call and the document served
    fetch_state,          \* fetch_rss: ready/returned/raised
    fetch_result,         \* fetch_rss: the pair (entries, status) it returned
    cli_state,            \* the run command: position in cli.py's run
    exit_code,            \* the run command: exit status, Absent while running
    output_file,          \* the run command: content of the distil file, if written
    cached_items,         \* web: the module global _cached_items
    fetch_req,            \* web: the /fetch request: idle/collecting
    gen_kind,             \* web: the generation request at hand: none/generate/streaming
    gen_phase,            \* web: its position: idle/refused/checked/running/saved/failed
    checked_items,        \* web: the value of _cached_items its non-empty check saw
    history,              \* web: the contents written to history files, in order   
    fetch_results,        \* web: what the fetches so far returned, in order of completion
    requests,             \* web: number of requests received so far
    overlap               \* web: whether a request arrived while another was being handled

sumVars == <<items, batch_size, reading_time, domain, pc, gpc, calls, failures, i,
             batch_summaries, bstate, ret, sstate, out, user_prompt, batch_summary,
             pending, chunk_count, total_chars, first_chunk_received>>

collectVars == <<rss_feeds, youtube_urls, days_back, min_items_threshold, verbose,
                 transcript_dir, cstate, fi, collected, feed_health_report, fetch_log,
                 threshold_warning, runs>>

fetchVars == <<fetch_args, fetch_state, fetch_result>>

cliVars == <<cli_state, exit_code, output_file>>

webVars == <<cached_items, fetch_req, gen_kind, gen_phase, checked_items, history,
             fetch_results, requests, overlap>>

\* what a summarizer step, and what a collection step, cannot touch
besideSum == <<collectVars, fetchVars, cliVars, webVars>>
besideCollect == <<sumVars, fetchVars, cliVars, webVars>>

vars == <<sumVars, collectVars, fetchVars, cliVars, webVars>>

----------------------------------------------------------------------------
(* Bounds of the model *)

MaxItems == 4
MaxBatch == 3
MaxFailures == 1

(* Program constants *)

ProgressEvery == 20

DefaultDomain == "technology"
Domains == {"technology", "drug discovery"}
ReadingTimes == {5}

----------------------------------------------------------------------------
(* Helpers *)

Min(a, b) == IF a <= b THEN a ELSE b

CeilDiv(n, b) == (n + b - 1) \div b

RECURSIVE Flatten(_)
Flatten(ss) == IF ss = <<>> THEN <<>> ELSE Head(ss) \o Flatten(Tail(ss))

NoValue == <<[t |-> "none"]>>

\* The k-th content item: its title, link and content are the k-th strings.
Item(k) == [title |-> k, link |-> k, content |-> k]

ItemList(n) == [k \in 1..n |-> Item(k)]

----------------------------------------------------------------------------
(* Prompt templates *)

ItemLines(its) ==
    [k \in 1..Len(its) |->
        [t |-> "item", idx |-> k, title |-> its[k].title,
         link |-> its[k].link, content |-> its[k].content]]

build_distil_prompt(its, rt, dom) ==
    <<[t |-> "distil_header", reading_time |-> rt, domain |-> dom,
       count |-> Len(its)]>> \o ItemLines(its)

build_batch_prompt(its, batch_number) ==
    <<[t |-> "batch_header", batch |-> batch_number, count |-> Len(its)]>>
        \o ItemLines(its)

\* mutant: the consolidation prompt loses the first batch summary
build_consolidation_prompt_skips(sums, rt) ==
    <<[t |-> "consolidation_header", reading_time |-> rt]>>
        \o Flatten([k \in 1..(Len(sums) - 1) |->
                        <<[t |-> "batch_summary_header", idx |-> k]>> \o sums[k + 1]])

build_consolidation_prompt(sums, rt) ==
    <<[t |-> "consolidation_header", reading_time |-> rt]>>
        \o Flatten([k \in 1..Len(sums) |->
                        <<[t |-> "batch_summary_header", idx |-> k]>> \o sums[k]])

\* mutant: the slice stops one item short
BatchSliceShort(its, start, b) == SubSeq(its, start + 1, Min(start + b, Len(its)) - 1)

\* items[i : i + batch_size]
BatchSlice(its, start, b) == SubSeq(its, start + 1, Min(start + b, Len(its)))

\* (i // batch_size) + 1
BatchNumber(start, b) == (start \div b) + 1

\* (len(items) + batch_size - 1) // batch_size
TotalBatches(n, b) == (n + b - 1) \div b

\* mutant: len(items) < batch_size
IsSmallCaseStrict(its, b) == Len(its) < b

\* len(items) <= batch_size
IsSmallCase(its, b) == Len(its) <= b

\* mutant: the emptiness test never succeeds
NoItemsNever(its) == Len(its) < 0

\* not items
NoItems(its) == Len(its) = 0

----------------------------------------------------------------------------
(* The summarization service *)

\* The fragments the service streams for a prompt; the second carries no
\* content (delta.content empty), as a role or stop fragment does.
ServiceChunks(p) ==
    << <<[t |-> "resp", part |-> 1, of |-> p]>>,
       <<>>,
       <<[t |-> "resp", part |-> 2, of |-> p]>> >>

\* The blocking form returns the whole text at once.
Response(p) == Flatten(ServiceChunks(p))

Marker(name, a, b) == <<[t |-> "marker", name |-> name, a |-> a, b |-> b]>>

NoItemsMsg == <<[t |-> "lit", s |-> "No items to process."]>>
NoItemsMsgStreaming == <<[t |-> "lit", s |-> "[x] No items to process."]>>

NewCall(by, kind, p, status) ==
    [by |-> by, kind |-> kind, prompt |-> p, status |-> status, delivered |-> <<>>]

InFlight == {k \in DOMAIN calls : calls[k].status = "inflight"}

CallsBy(v) == SelectSeq(calls, LAMBDA c : c.by = v)

----------------------------------------------------------------------------
(* Initial state: the inputs of one summarization run *)

SumStart ==
    /\ \E n \in 0..MaxItems : items = ItemList(n)
    /\ batch_size \in 1..MaxBatch
    /\ reading_time \in ReadingTimes
    /\ domain \in Domains
    /\ pc = "idle"
    /\ gpc = "none"
    /\ calls = <<>>
    /\ failures = 0
    /\ i = 0
    /\ batch_summaries = <<>>
    /\ bstate = "notrun"
    /\ ret = NoValue
    /\ sstate = "notrun"
    /\ out = <<>>
    /\ user_prompt = <<>>
    /\ batch_summary = <<>>
    /\ pending = <<>>
    /\ chunk_count = 0
    /\ total_chars = 0
    /\ first_chunk_received = FALSE

streamVars == <<gpc, sstate, out, user_prompt, batch_summary, pending, chunk_count,
                total_chars, first_chunk_received>>
inputVars == <<items, batch_size, reading_time, domain>>

----------------------------------------------------------------------------
(* generate_distil_batched *)

\* if not items: return "No items to process."
BatchedNoItems ==
    /\ pc = "idle" /\ bstate = "notrun" /\ sstate = "notrun"
    /\ NoItems(items)
    /\ ret' = NoItemsMsg
    /\ bstate' = "returned"
    /\ UNCHANGED <<besideSum, inputVars, streamVars, pc, calls, failures, i, batch_summaries>>

\* if len(items) <= batch_size: one prompt over all items, one call
BatchedSmall ==
    /\ pc = "idle" /\ bstate = "notrun" /\ sstate = "notrun"
    /\ ~NoItems(items)
    /\ IsSmallCase(items, batch_size)
    /\ calls' = Append(calls, NewCall("batched", "single",
                        build_distil_prompt(items, reading_time, domain), "inflight"))
    /\ pc' = "b_single"
    /\ bstate' = "running"
    /\ UNCHANGED <<besideSum, inputVars, streamVars, failures, i, batch_summaries, ret>>

\* batch_summaries = []; enter the loop over range(0, len(items), batch_size)
BatchedBegin ==
    /\ pc = "idle" /\ bstate = "notrun" /\ sstate = "notrun"
    /\ ~NoItems(items)
    /\ ~IsSmallCase(items, batch_size)
    /\ batch_summaries' = <<>>
    /\ i' = 0
    /\ pc' = "b_loop"
    /\ bstate' = "running"
    /\ UNCHANGED <<besideSum, inputVars, streamVars, calls, failures, ret>>

\* mutant: the loop goes on while a call is open
BatchedLoopNoWait == pc \in {"b_loop", "b_batch"}

\* The loop may take its next step only between calls: generate_distil blocks.
BatchedAtLoopHead == pc = "b_loop"

\* one iteration of the loop up to the call of generate_distil
BatchedNextBatch ==
    /\ BatchedAtLoopHead
    /\ i < Len(items)
    /\ calls' = Append(calls, NewCall("batched", "batch",
                        build_batch_prompt(BatchSlice(items, i, batch_size),
                                           BatchNumber(i, batch_size)), "inflight"))
    /\ pc' = "b_batch"
    /\ UNCHANGED <<besideSum, inputVars, streamVars, failures, i, batch_summaries, bstate, ret>>

\* after the loop: the consolidation prompt and its call
BatchedConsolidate ==
    /\ BatchedAtLoopHead
    /\ i >= Len(items)
    /\ calls' = Append(calls, NewCall("batched", "consolidation",
                        build_consolidation_prompt(batch_summaries, reading_time),
                        "inflight"))
    /\ pc' = "b_consol"
    /\ UNCHANGED <<besideSum, inputVars, streamVars, failures, i, batch_summaries, bstate, ret>>

\* generate_distil returns response.choices[0].message.content
GenerateDistilReturn ==
    /\ pc \in {"b_single", "b_batch", "b_consol"}
    /\ LET k == Len(calls)
           r == Response(calls[k].prompt)
       IN /\ calls' = [calls EXCEPT ![k].status = "ok", ![k].delivered = <<r>>]
          /\ IF pc = "b_batch"
                THEN /\ batch_summaries' = Append(batch_summaries, r)
                     /\ i' = i + batch_size
                     /\ pc' = "b_loop"
                     /\ UNCHANGED <<ret, bstate>>
                ELSE /\ ret' = r
                     /\ bstate' = "returned"
                     /\ pc' = "idle"
                     /\ UNCHANGED <<batch_summaries, i>>
    /\ UNCHANGED <<besideSum, inputVars, streamVars, failures>>

\* mutant: the error is swallowed and its text stands in for the answer
GenerateDistilSwallow ==
    /\ pc \in {"b_single", "b_batch", "b_consol"}
    /\ failures < MaxFailures
    /\ failures' = failures + 1
    /\ calls' = [calls EXCEPT ![Len(calls)].status = "failed"]
    /\ IF pc = "b_batch"
          THEN /\ batch_summaries' = Append(batch_summaries, Marker("error", 0, 0))
               /\ i' = i + batch_size
               /\ pc' = "b_loop"
               /\ UNCHANGED <<ret, bstate>>
          ELSE /\ ret' = Marker("error", 0, 0)
               /\ bstate' = "returned"
               /\ pc' = "idle"
               /\ UNCHANGED <<batch_summaries, i>>
    /\ UNCHANGED <<besideSum, inputVars, streamVars>>

\* generate_distil: except Exception: print; raise.  Nothing in
\* generate_distil_batched catches it.
GenerateDistilRaise ==
    /\ pc \in {"b_single", "b_batch", "b_consol"}
    /\ failures < MaxFailures
    /\ failures' = failures + 1
    /\ calls' = [calls EXCEPT ![Len(calls)].status = "failed"]
    /\ bstate' = "raised"
    /\ pc' = "idle"
    /\ UNCHANGED <<besideSum, inputVars, streamVars, i, batch_summaries, ret>>

BatchedNext ==
    \/ BatchedNoItems
    \/ BatchedSmall
    \/ BatchedBegin
    \/ BatchedNextBatch
    \/ BatchedConsolidate
    \/ GenerateDistilReturn
    \/ GenerateDistilRaise

----------------------------------------------------------------------------
(* generate_distil_streaming: the generator behind every streaming call.    *)
(* Whatever it yields reaches the consumer through the for loop of          *)
(* generate_distil_batched_streaming that drives it; in the batch loop that *)
(* loop also adds every chunk to batch_summary.                             *)

\* the chunks chs, yielded by generate_distil_streaming, pass through the caller
Forward(chs) ==
    /\ out' = out \o chs
    /\ batch_summary' = IF pc = "s_batch" THEN batch_summary \o Flatten(chs)
                                          ELSE batch_summary

\* mutant: the first fragment is replaced by the "first chunk" line
ContentYieldsDropFirst(c, first, count, chars) ==
    IF ~first THEN <<Marker("first_chunk", 0, 0)>> ELSE <<c>>

\* what one content fragment c makes the generator yield (count is chunk_count
\* after the increment)
ContentYields(c, first, count, chars) ==
    (IF ~first THEN <<Marker("first_chunk", 0, 0)>> ELSE <<>>)
        \o <<c>>
        \o (IF count % ProgressEvery = 0 THEN <<Marker("progress", count, chars)>>
                                         ELSE <<>>)

\* yield "Connecting"; completion(stream=True) returns; yield "Connected"
StreamConnect ==
    /\ gpc = "connect"
    /\ calls' = Append(calls, NewCall("streaming",
                        CASE pc = "s_single" -> "single"
                          [] pc = "s_batch" -> "batch"
                          [] pc = "s_consol" -> "consolidation",
                        user_prompt, "inflight"))
    /\ pending' = ServiceChunks(user_prompt)
    /\ chunk_count' = 0
    /\ total_chars' = 0
    /\ first_chunk_received' = FALSE
    /\ Forward(<<Marker("connecting", 0, 0), Marker("connected", 0, 0)>>)
    /\ gpc' = "iter"
    /\ UNCHANGED <<besideSum, inputVars, pc, failures, i, batch_summaries, bstate, ret, sstate,
                   user_prompt>>

\* yield "Connecting"; completion raises; except: yield the error text; the
\* generator then ends like any other
StreamConnectFail ==
    /\ gpc = "connect"
    /\ failures < MaxFailures
    /\ failures' = failures + 1
    /\ calls' = Append(calls, NewCall("streaming",
                        CASE pc = "s_single" -> "single"
                          [] pc = "s_batch" -> "batch"
                          [] pc = "s_consol" -> "consolidation",
                        user_prompt, "failed"))
    /\ Forward(<<Marker("connecting", 0, 0), Marker("error", 0, 0)>>)
    /\ gpc' = "end"
    /\ UNCHANGED <<besideSum, inputVars, pc, i, batch_summaries, bstate, ret, sstate, user_prompt,
                   pending, chunk_count, total_chars, first_chunk_received>>

\* one turn of "for chunk in response"
StreamChunk ==
    /\ gpc = "iter"
    /\ pending # <<>>
    /\ LET c == Head(pending)
           k == Len(calls)
       IN IF c # <<>>
             THEN /\ chunk_count' = chunk_count + 1
                  /\ total_chars' = total_chars + Len(c)
                  /\ first_chunk_received' = TRUE
                  /\ Forward(ContentYields(c, first_chunk_received, chunk_count + 1,
                                           total_chars + Len(c)))
                  /\ calls' = [calls EXCEPT ![k].delivered = Append(@, c)]
             ELSE /\ UNCHANGED <<chunk_count, total_chars, first_chunk_received, out,
                                 batch_summary>>
                  /\ calls' = [calls EXCEPT ![k].delivered = Append(@, c)]
    /\ pending' = Tail(pending)
    /\ UNCHANGED <<besideSum, inputVars, pc, gpc, failures, i, batch_summaries, bstate, ret, sstate,
                   user_prompt>>

\* the response iterator raises; except: yield the error text
StreamFail ==
    /\ gpc = "iter"
    /\ failures < MaxFailures
    /\ failures' = failures + 1
    /\ calls' = [calls EXCEPT ![Len(calls)].status = "failed"]
    /\ pending' = <<>>
    /\ Forward(<<Marker("error", 0, 0)>>)
    /\ gpc' = "end"
    /\ UNCHANGED <<besideSum, inputVars, pc, i, batch_summaries, bstate, ret, sstate, user_prompt,
                   chunk_count, total_chars, first_chunk_received>>

\* the response is exhausted: yield "Streaming completed"
StreamEnd ==
    /\ gpc = "iter"
    /\ pending = <<>>
    /\ calls' = [calls EXCEPT ![Len(calls)].status = "ok"]
    /\ Forward(<<Marker("streaming_completed", chunk_count, total_chars)>>)
    /\ gpc' = "end"
    /\ UNCHANGED <<besideSum, inputVars, pc, failures, i, batch_summaries, bstate, ret, sstate,
                   user_prompt, pending, chunk_count, total_chars, first_chunk_received>>

----------------------------------------------------------------------------
(* generate_distil_batched_streaming *)

\* It runs on fresh inputs, or on the inputs of a generate_distil_batched run
\* that has returned.
StreamingMayStart ==
    pc = "idle" /\ sstate = "notrun" /\ bstate \in {"notrun", "returned"}

\* if not items: yield the no-items text; return
StreamingNoItems ==
    /\ StreamingMayStart
    /\ NoItems(items)
    /\ out' = <<NoItemsMsgStreaming>>
    /\ sstate' = "done"
    /\ UNCHANGED <<besideSum, inputVars, pc, gpc, calls, failures, i, batch_summaries, bstate, ret,
                   user_prompt, batch_summary, pending, chunk_count, total_chars,
                   first_chunk_received>>

StartMarkers ==
    <<Marker("starting", Len(items), 0),
      Marker("configuration", batch_size, reading_time)>>

\* the small case: build_distil_prompt(items, reading_time), no domain passed
StreamingSmall ==
    /\ StreamingMayStart
    /\ ~NoItems(items)
    /\ IsSmallCase(items, batch_size)
    /\ user_prompt' = build_distil_prompt(items, reading_time, DefaultDomain)
    /\ out' = StartMarkers \o <<Marker("no_batching", Len(items), 0)>>
    /\ pc' = "s_single"
    /\ gpc' = "connect"
    /\ sstate' = "running"
    /\ UNCHANGED <<besideSum, inputVars, calls, failures, i, batch_summaries, bstate, ret,
                   batch_summary, pending, chunk_count, total_chars,
                   first_chunk_received>>

StreamingBegin ==
    /\ StreamingMayStart
    /\ ~NoItems(items)
    /\ ~IsSmallCase(items, batch_size)
    /\ batch_summaries' = <<>>
    /\ i' = 0
    /\ out' = StartMarkers
                \o <<Marker("will_process", Len(items),
                            TotalBatches(Len(items), batch_size))>>
    /\ pc' = "s_loop"
    /\ sstate' = "running"
    /\ UNCHANGED <<besideSum, inputVars, gpc, calls, failures, bstate, ret, user_prompt,
                   batch_summary, pending, chunk_count, total_chars,
                   first_chunk_received>>

BatchMarkers(batch_items, batch_number, total_batches) ==
    <<Marker("separator", 0, 0),
      Marker("batch", batch_number, total_batches),
      Marker("processing", Len(batch_items), 0)>>
        \o [k \in 1..Len(batch_items) |-> Marker("item_title", k, batch_items[k].title)]
        \o <<Marker("separator", 0, 0)>>

\* one iteration of the batch loop, up to the start of the inner generator
StreamingNextBatch ==
    /\ pc = "s_loop"
    /\ i < Len(items)
    /\ LET batch_items == BatchSlice(items, i, batch_size)
           batch_number == BatchNumber(i, batch_size)
       IN /\ out' = out \o BatchMarkers(batch_items, batch_number,
                                        TotalBatches(Len(items), batch_size))
          /\ user_prompt' = build_batch_prompt(batch_items, batch_number)
    /\ batch_summary' = <<>>
    /\ pc' = "s_batch"
    /\ gpc' = "connect"
    /\ UNCHANGED <<besideSum, inputVars, calls, failures, i, batch_summaries, bstate, ret, sstate,
                   pending, chunk_count, total_chars, first_chunk_received>>

\* the "items processed" count reported after a batch
ItemsProcessed(batch_number, b) == batch_number * b

\* the inner generator is exhausted: append the summary, report, next i
StreamingBatchDone ==
    /\ pc = "s_batch"
    /\ gpc = "end"
    /\ batch_summaries' = Append(batch_summaries, batch_summary)
    /\ LET batch_number == BatchNumber(i, batch_size)
       IN out' = out \o <<Marker("batch_completed", batch_number,
                                 TotalBatches(Len(items), batch_size)),
                          Marker("items_processed",
                                 ItemsProcessed(batch_number, batch_size), Len(items))>>
    /\ i' = i + batch_size
    /\ pc' = "s_loop"
    /\ gpc' = "none"
    /\ UNCHANGED <<besideSum, inputVars, calls, failures, bstate, ret, sstate, user_prompt,
                   batch_summary, pending, chunk_count, total_chars,
                   first_chunk_received>>

\* after the loop: the consolidation prompt and the start of its generator
StreamingConsolidate ==
    /\ pc = "s_loop"
    /\ i >= Len(items)
    /\ out' = out \o <<Marker("separator", 0, 0),
                       Marker("consolidation_phase", 0, 0),
                       Marker("combining", Len(batch_summaries), 0),
                       Marker("separator", 0, 0)>>
    /\ user_prompt' = build_consolidation_prompt(batch_summaries, reading_time)
    /\ pc' = "s_consol"
    /\ gpc' = "connect"
    /\ UNCHANGED <<besideSum, inputVars, calls, failures, i, batch_summaries, bstate, ret, sstate,
                   batch_summary, pending, chunk_count, total_chars,
                   first_chunk_received>>

\* small case: the inner generator is exhausted: return
StreamingSingleDone ==
    /\ pc = "s_single"
    /\ gpc = "end"
    /\ sstate' = "done"
    /\ pc' = "idle"
    /\ gpc' = "none"
    /\ UNCHANGED <<besideSum, inputVars, calls, failures, i, batch_summaries, bstate, ret, out,
                   user_prompt, batch_summary, pending, chunk_count, total_chars,
                   first_chunk_received>>

\* the consolidation generator is exhausted: the closing lines
StreamingConsolDone ==
    /\ pc = "s_consol"
    /\ gpc = "end"
    /\ out' = out \o <<Marker("complete", 0, 0),
                       Marker("final_stats", Len(items),
                              TotalBatches(Len(items), batch_size))>>
    /\ sstate' = "done"
    /\ pc' = "idle"
    /\ gpc' = "none"
    /\ UNCHANGED <<besideSum, inputVars, calls, failures, i, batch_summaries, bstate, ret,
                   user_prompt, batch_summary, pending, chunk_count, total_chars,
                   first_chunk_received>>

StreamingNext ==
    \/ StreamingNoItems
    \/ StreamingSmall
    \/ StreamingBegin
    \/ StreamingNextBatch
    \/ StreamingBatchDone
    \/ StreamingConsolidate
    \/ StreamingSingleDone
    \/ StreamingConsolDone
    \/ StreamConnect
    \/ StreamConnectFail
    \/ StreamChunk
    \/ StreamFail
    \/ StreamEnd

----------------------------------------------------------------------------


----------------------------------------------------------------------------
(* Feeds, as feedparser hands them to fetch_rss.                            *)
(* A text is a sequence of characters.  A summary or transcript is a text   *)
(* s followed by pad further characters that matter only for its length.    *)
(* A date is the age of the entry in days; Absent stands for a missing      *)
(* attribute and for None.                                                  *)

Absent == 0 - 1

ArticleCap == 2000
VideoCap == 5000

Padded(s, pad) == [s |-> s, pad |-> pad]

TextLen(txt) == Len(txt.s) + txt.pad

\* txt[:cap]
TruncateNot(txt, cap) == txt

Truncate(txt, cap) ==
    IF Len(txt.s) >= cap THEN Padded(SubSeq(txt.s, 1, cap), 0)
    ELSE Padded(txt.s, Min(txt.pad, cap - Len(txt.s)))

\* str.lower(), character by character
LowerChar(ch) == CASE ch = "A" -> "a" [] ch = "B" -> "b" [] OTHER -> ch
Lower(s) == [k \in 1..Len(s) |-> LowerChar(s[k])]

\* kw in text
Contains(text, kw) ==
    \E start \in 1..(Len(text) + 1) :
        /\ start + Len(kw) - 1 <= Len(text)
        /\ SubSeq(text, start, start + Len(kw) - 1) = kw

\* any(kw.lower() in (title + " " + summary).lower() for kw in keywords)
MatchesKeywordsCaseSensitive(keywords, title, summary) ==
    LET text == title \o <<" ">> \o summary.s
    IN \E k \in DOMAIN keywords : Contains(text, keywords[k])

MatchesKeywords(keywords, title, summary) ==
    LET text == Lower(title \o <<" ">> \o summary.s)
    IN \E k \in DOMAIN keywords : Contains(text, Lower(keywords[k]))

\* published_parsed, else updated_parsed, else datetime.now()
ResolveAgePublishedOnly(e) ==
    IF e.published # Absent THEN e.published ELSE 0

ResolveAge(e) ==
    IF e.published # Absent THEN e.published
    ELSE IF e.updated # Absent THEN e.updated
    ELSE 0

\* "if max_items": None and 0 are both false
Truthy(max_items) == max_items # Absent /\ max_items # 0

\* the loop over feed.entries; pub_date < cutoff is age > days_back.  Reading
\* entry.title or entry.link of an entry that lacks it raises AttributeError,
\* and nothing around the loop catches it.
RECURSIVE FilterLoop(_, _, _, _, _, _)
FilterLoop(entries, k, recent_entries, db, max_items, keywords) ==
    IF k > Len(entries) THEN [raised |-> FALSE, entries |-> recent_entries]
    ELSE LET e == entries[k]
             age == ResolveAge(e)
             summary == IF e.summary.present THEN e.summary.text ELSE Padded(<<>>, 0)
         IN IF age > db
               THEN FilterLoop(entries, k + 1, recent_entries, db, max_items, keywords)
            ELSE IF ~e.title.present
               THEN [raised |-> TRUE, entries |-> <<>>]
            ELSE IF keywords # <<>> /\ ~MatchesKeywords(keywords, e.title.s, summary)
               THEN FilterLoop(entries, k + 1, recent_entries, db, max_items, keywords)
            ELSE IF ~e.link.present
               THEN [raised |-> TRUE, entries |-> <<>>]
            ELSE LET more == Append(recent_entries,
                                [title |-> e.title.s, link |-> e.link.url,
                                 published |-> age, summary |-> summary])
                 IN IF Truthy(max_items) /\ Len(more) >= max_items
                       THEN [raised |-> FALSE, entries |-> more]
                       ELSE FilterLoop(entries, k + 1, more, db, max_items, keywords)

StatusNoTotal(st, tag, detail, total) ==
    [status |-> st, message |-> [tag |-> tag, detail |-> detail], total_entries |-> 0]

Status(st, tag, detail, total) ==
    [status |-> st, message |-> [tag |-> tag, detail |-> detail],
     total_entries |-> total]

\* the try block of fetch_rss: parse, bozo, empty, timeout
ParseStatusAborts(doc, timeout) ==
    IF doc.parse_raises
       THEN [done |-> TRUE, status |-> Status("error", "failed_to_fetch", doc.error, 0)]
    ELSE IF Len(doc.entries) = 0
       THEN [done |-> TRUE, status |-> Status("empty", "no_entries", "", 0)]
    ELSE IF doc.fetch_time > timeout
       THEN [done |-> TRUE,
             status |-> Status("timeout", "fetch_took", "", Len(doc.entries))]
    ELSE IF doc.bozo
       THEN [done |-> FALSE,
             status |-> Status("warning", "parsing_issues", doc.bozo_exception,
                               Len(doc.entries))]
    ELSE [done |-> FALSE, status |-> Status("success", "", "", Len(doc.entries))]

ParseStatus(doc, timeout) ==
    IF doc.parse_raises
       THEN [done |-> TRUE, status |-> Status("error", "failed_to_fetch", doc.error, 0)]
    ELSE IF Len(doc.entries) = 0
       THEN [done |-> TRUE, status |-> Status("empty", "no_entries", "", 0)]
    ELSE IF doc.fetch_time > timeout
       THEN [done |-> FALSE,
             status |-> Status("timeout", "fetch_took", "", Len(doc.entries))]
    ELSE IF doc.bozo
       THEN [done |-> FALSE,
             status |-> Status("warning", "parsing_issues", doc.bozo_exception,
                               Len(doc.entries))]
    ELSE [done |-> FALSE, status |-> Status("success", "", "", Len(doc.entries))]

\* fetch_rss(url, days_back, max_items, keywords, timeout, verbose), doc being
\* what feedparser.parse(url) produces
fetch_rss(doc, db, max_items, keywords, timeout, vb) ==
    LET parsed == ParseStatus(doc, timeout)
    IN IF parsed.done
          THEN [raised |-> FALSE, entries |-> <<>>, status |-> parsed.status]
          ELSE LET loop == FilterLoop(doc.entries, 1, <<>>, db, max_items, keywords)
               IN IF loop.raised
                     THEN [raised |-> TRUE, entries |-> <<>>, status |-> parsed.status]
                  ELSE IF vb /\ loop.entries = <<>>
                     THEN [raised |-> FALSE, entries |-> <<>>,
                           status |-> [parsed.status EXCEPT !.message =
                               [tag |-> "no_items_matched", detail |-> ""]]]
                  ELSE [raised |-> FALSE, entries |-> loop.entries,
                        status |-> parsed.status]

----------------------------------------------------------------------------
(* The feeds and transcripts the collection runs are checked on *)

MaxFeeds == 2
MaxRuns == 2
FeedTimeout == 30
DaysBack == 7
SlowFetch == FeedTimeout + 1
OldAge == DaysBack + 1
LongSummary == ArticleCap + 500
LongTranscript == VideoCap + 1000

Entry(pub, upd, hasTitle, title, text, hasLink) ==
    [published |-> pub, updated |-> upd,
     title |-> [present |-> hasTitle, s |-> title],
     summary |-> [present |-> TRUE, text |-> text],
     link |-> [present |-> hasLink, url |-> title]]

Recent(title) == Entry(1, Absent, TRUE, title, Padded(<<"b">>, 0), TRUE)
Undated(title) == Entry(Absent, Absent, TRUE, title, Padded(<<"a">>, LongSummary), TRUE)
Old(title) == Entry(Absent, OldAge, TRUE, title, Padded(<<>>, 0), TRUE)
Untitled == Entry(1, Absent, FALSE, <<>>, Padded(<<>>, 0), TRUE)

Doc(entries, bozo, fetch_time) ==
    [parse_raises |-> FALSE, error |-> "", bozo |-> bozo,
     bozo_exception |-> IF bozo THEN "not well-formed" ELSE "",
     entries |-> entries, fetch_time |-> fetch_time]

FeedDocs ==
    { Doc(<<Recent(<<"A">>), Old(<<"b">>), Undated(<<"a", "b">>)>>, FALSE, 1),
      Doc(<<>>, FALSE, 1),
      Doc(<<Recent(<<"b">>)>>, TRUE, 1),
      Doc(<<Recent(<<"a">>)>>, FALSE, SlowFetch),
      Doc(<<Recent(<<"a">>), Untitled>>, FALSE, 1),
      [parse_raises |-> TRUE, error |-> "connection refused", bozo |-> FALSE,
       bozo_exception |-> "", entries |-> <<>>, fetch_time |-> 1] }

\* a feed name is either given or the positional "Feed i"
FeedName(word, number) == <<word, number>>

NoName == [present |-> FALSE, s |-> FeedName("", 0)]
Named(word, number) == [present |-> TRUE, s |-> FeedName(word, number)]

\* the configurations a feed may have, but for its url
ConfigOptions ==
    { [name |-> NoName, keywords |-> <<>>, max_items |-> Absent],
      [name |-> Named("A", 0), keywords |-> <<>>, max_items |-> 1],
      [name |-> Named("Feed", 2), keywords |-> <<>>, max_items |-> Absent],
      [name |-> Named("A", 0), keywords |-> << <<"a">> >>, max_items |-> Absent] }

FeedConfigs(k) ==
    { [url |-> k, name |-> o.name, keywords |-> o.keywords, max_items |-> o.max_items] :
        o \in ConfigOptions }

FeedLists ==
    UNION { { fl \in [1..n -> UNION {FeedConfigs(k) : k \in 1..n}] :
                \A k \in 1..n : fl[k].url = k } : n \in 0..MaxFeeds }

VttFile(base, text, valid) ==
    [stem |-> [base |-> base, en |-> TRUE], text |-> text, valid |-> valid]

\* what yt-dlp may leave in the directory for one URL
Downloads ==
    { <<>>,
      <<VttFile("new", Padded(<<"a">>, LongTranscript), TRUE)>>,
      <<VttFile("broken", Padded(<<>>, 0), FALSE)>> }

StaleFiles == { <<>>, <<VttFile("old", Padded(<<"b">>, 0), TRUE)>> }

----------------------------------------------------------------------------
(* collect_content *)

CollectIdle ==
    /\ rss_feeds = <<>>
    /\ youtube_urls = <<>>
    /\ days_back = DaysBack
    /\ min_items_threshold = 0
    /\ verbose = FALSE
    /\ transcript_dir = <<>>
    /\ cstate = "idle"
    /\ fi = 1
    /\ collected = <<>>
    /\ feed_health_report = <<>>
    /\ fetch_log = <<>>
    /\ threshold_warning = FALSE
    /\ runs = 1

FetchIdle ==
    /\ fetch_args = <<>>
    /\ fetch_state = "idle"
    /\ fetch_result = <<>>

CliIdle ==
    /\ cli_state = "idle"
    /\ exit_code = Absent
    /\ output_file = NoValue

WebIdle ==
    /\ cached_items = <<>>
    /\ fetch_req = "idle"
    /\ gen_kind = "none"
    /\ gen_phase = "idle"
    /\ checked_items = <<>>
    /\ history = <<>>
    /\ fetch_results = <<>>
    /\ requests = 0
    /\ overlap = FALSE

SumIdle ==
    /\ items = <<>>
    /\ batch_size = 1
    /\ reading_time = 5
    /\ domain = DefaultDomain
    /\ pc = "done"
    /\ gpc = "none"
    /\ calls = <<>>
    /\ failures = 0
    /\ i = 0
    /\ batch_summaries = <<>>
    /\ bstate = "notrun"
    /\ ret = NoValue
    /\ sstate = "notrun"
    /\ out = <<>>
    /\ user_prompt = <<>>
    /\ batch_summary = <<>>
    /\ pending = <<>>
    /\ chunk_count = 0
    /\ total_chars = 0
    /\ first_chunk_received = FALSE

CollectInit ==
    /\ SumIdle
    /\ FetchIdle
    /\ CliIdle
    /\ WebIdle
    /\ rss_feeds \in FeedLists
    /\ youtube_urls \in {<<>>, <<"y1">>}
    /\ days_back = DaysBack
    /\ min_items_threshold \in {0, MaxFeeds + 1}
    /\ verbose \in BOOLEAN
    /\ transcript_dir \in StaleFiles
    /\ cstate = "feeds"
    /\ fi = 1
    /\ collected = <<>>
    /\ feed_health_report = <<>>
    /\ fetch_log = <<>>
    /\ threshold_warning = FALSE
    /\ runs = 1

collectInputs == <<rss_feeds, youtube_urls, days_back, min_items_threshold, verbose,
                   runs>>

\* feed_config.get("name", f"Feed {i}")
NameOf(feed_config, k) ==
    IF feed_config.name.present THEN feed_config.name.s ELSE FeedName("Feed", k)

SetHealthKeepFirst(report, name, entry) ==
    IF \E k \in DOMAIN report : report[k].name = name
       THEN report
       ELSE Append(report, [name |-> name, health |-> entry])

\* feed_health_report[name] = entry: a dict keyed by name
SetHealth(report, name, entry) ==
    IF \E k \in DOMAIN report : report[k].name = name
       THEN [k \in DOMAIN report |->
                IF report[k].name = name THEN [name |-> name, health |-> entry]
                                         ELSE report[k]]
       ELSE Append(report, [name |-> name, health |-> entry])

HealthEntry(feed_config, status, filtered, fetch_time) ==
    [url |-> feed_config.url, status |-> status.status, message |-> status.message,
     total_entries |-> status.total_entries, filtered_entries |-> filtered,
     fetch_time |-> fetch_time, keywords |-> feed_config.keywords,
     max_items |-> feed_config.max_items]

\* the article items made of the entries fetch_rss returned
Articles(feed_config, name, entries) ==
    [k \in 1..Len(entries) |->
        [type |-> "article", source |-> name, source_url |-> feed_config.url,
         title |-> entries[k].title, content |-> Truncate(entries[k].summary, ArticleCap),
         link |-> entries[k].link, date |-> entries[k].published]]

ExtendFront(coll, new) == new \o coll

\* collected.append(...) for each new item, in order
Extend(coll, new) == coll \o new

FetchOf(doc, feed_config) ==
    fetch_rss(doc, days_back, feed_config.max_items, feed_config.keywords,
              FeedTimeout, verbose)

\* one turn of the loop over rss_feeds in which fetch_rss returns
CollectFeed ==
    /\ cstate = "feeds"
    /\ fi <= Len(rss_feeds)
    /\ \E doc \in FeedDocs :
          LET feed_config == rss_feeds[fi]
              name == NameOf(feed_config, fi)
              r == FetchOf(doc, feed_config)
          IN /\ ~r.raised
             /\ feed_health_report' =
                   SetHealth(feed_health_report, name,
                       HealthEntry(feed_config, r.status, Len(r.entries), doc.fetch_time))
             /\ collected' = Extend(collected, Articles(feed_config, name, r.entries))
             /\ fetch_log' = Append(fetch_log,
                                [feed |-> fi, outcome |-> r.status.status,
                                 entries |-> r.entries, status |-> r.status,
                                 fetch_time |-> doc.fetch_time])
    /\ fi' = fi + 1
    /\ UNCHANGED <<besideCollect, collectInputs, transcript_dir, cstate, threshold_warning>>

\* one turn of the loop in which fetch_rss raises: the except branch
CollectFeedException ==
    /\ cstate = "feeds"
    /\ fi <= Len(rss_feeds)
    /\ \E doc \in FeedDocs :
          LET feed_config == rss_feeds[fi]
              name == NameOf(feed_config, fi)
              r == FetchOf(doc, feed_config)
          IN /\ r.raised
             /\ feed_health_report' =
                   SetHealth(feed_health_report, name,
                       HealthEntry(feed_config,
                           Status("error", "unexpected_error", "AttributeError", 0),
                           0, doc.fetch_time))
             /\ fetch_log' = Append(fetch_log,
                                [feed |-> fi, outcome |-> "raised",
                                 entries |-> <<>>, status |-> r.status,
                                 fetch_time |-> doc.fetch_time])
    /\ fi' = fi + 1
    /\ UNCHANGED <<besideCollect, collectInputs, transcript_dir, cstate, collected,
                   threshold_warning>>

\* the video items made of the .vtt files in the directory
Videos(files) ==
    [k \in 1..Len(files) |->
        [type |-> "video", source |-> "youtube", title |-> files[k].stem.base,
         content |-> Truncate(files[k].text, VideoCap), link |-> files[k].stem,
         date |-> 0]]

ThresholdCheckRaises(coll, threshold, vb) ==
    [raises |-> Len(coll) < threshold,
     warning |-> vb /\ Len(coll) < threshold]

\* len(collected) < min_items_threshold: a warning is printed when verbose,
\* and nothing else follows from it
ThresholdCheck(coll, threshold, vb) ==
    [raises |-> FALSE, warning |-> vb /\ Len(coll) < threshold]

BelowThreshold == ThresholdCheck(collected, min_items_threshold, verbose)

\* after the loop, without YouTube URLs: threshold check, return
CollectReturn ==
    /\ cstate = "feeds"
    /\ fi > Len(rss_feeds)
    /\ youtube_urls = <<>>
    /\ threshold_warning' = BelowThreshold.warning
    /\ cstate' = IF BelowThreshold.raises THEN "raised" ELSE "returned"
    /\ UNCHANGED <<besideCollect, collectInputs, transcript_dir, fi, collected,
                   feed_health_report, fetch_log>>

AddFilesReplace(dir, new) == new

\* yt-dlp --no-overwrites writes the files the directory does not hold yet
AddFiles(dir, new) ==
    dir \o SelectSeq(new, LAMBDA f : \A k \in DOMAIN dir : dir[k].stem # f.stem)

\* after the loop, with YouTube URLs: threshold check, the downloads, then
\* every .vtt file of the directory is parsed; parse_vtt raises on a file
\* that is not valid WebVTT and nothing catches it
CollectTranscripts ==
    /\ cstate = "feeds"
    /\ fi > Len(rss_feeds)
    /\ youtube_urls # <<>>
    /\ threshold_warning' = BelowThreshold.warning
    /\ IF BelowThreshold.raises
          THEN /\ cstate' = "raised"
               /\ UNCHANGED <<transcript_dir, collected>>
          ELSE \E new \in Downloads :
                  LET files == AddFiles(transcript_dir, new)
                      bad == {k \in DOMAIN files : ~files[k].valid}
                  IN /\ transcript_dir' = files
                     /\ IF bad = {}
                           THEN /\ collected' = Extend(collected, Videos(files))
                                /\ cstate' = "returned"
                           ELSE /\ collected' = Extend(collected,
                                       Videos(SubSeq(files, 1,
                                           (CHOOSE k \in bad : \A j \in bad : k <= j) - 1)))
                                /\ cstate' = "raised"
    /\ UNCHANGED <<besideCollect, collectInputs, fi, feed_health_report, fetch_log>>

\* collect_content is called again in the same process and directory; the
\* later calls are checked without feeds
CollectAgain ==
    /\ cstate \in {"returned", "raised"}
    /\ runs < MaxRuns
    /\ runs' = runs + 1
    /\ rss_feeds' = <<>>
    /\ youtube_urls' \in {<<>>, <<"y1">>}
    /\ cstate' = "feeds"
    /\ fi' = 1
    /\ collected' = <<>>
    /\ feed_health_report' = <<>>
    /\ fetch_log' = <<>>
    /\ threshold_warning' = FALSE
    /\ UNCHANGED <<besideCollect, days_back, min_items_threshold, verbose,
                   transcript_dir>>

CollectNext ==
    \/ CollectFeed
    \/ CollectFeedException
    \/ CollectReturn
    \/ CollectTranscripts
    \/ CollectAgain

----------------------------------------------------------------------------
(* fetch_rss called on its own *)

MaxEntries == 2

NoLink(title) == Entry(1, Absent, TRUE, title, Padded(<<"b">>, 0), FALSE)
Republished(title) == Entry(OldAge, 1, TRUE, title, Padded(<<"a">>, 0), TRUE)
NoSummary(title) == [Recent(title) EXCEPT !.summary.present = FALSE]

\* the entries a served document is made of
EntryPool ==
    { Recent(<<"A">>), Old(<<"a">>), Undated(<<"b">>), Untitled, NoLink(<<"a">>),
      Republished(<<"a">>), NoSummary(<<"b", "a">>) }

EntrySeqs == UNION { [1..n -> EntryPool] : n \in 0..MaxEntries }

FetchDocs ==
    { Doc(es, bozo, t) : es \in EntrySeqs, bozo \in BOOLEAN, t \in {1, SlowFetch} }
        \cup { d \in FeedDocs : d.parse_raises }

\* keywords: none, one word, a word that is title and summary put together,
\* several words of which one holds a space
KeywordLists ==
    { <<>>, << <<"a">> >>, << <<"A", "b">> >>, << <<"x">>, <<"a", " ", "B">> >> }

FetchInit ==
    /\ SumIdle
    /\ CollectIdle
    /\ CliIdle
    /\ WebIdle
    /\ fetch_args \in
          [doc : FetchDocs, days_back : {0 - 1, 0, DaysBack},
           max_items : {Absent} \cup (0..MaxEntries), keywords : KeywordLists,
           verbose : BOOLEAN]
    /\ fetch_state = "ready"
    /\ fetch_result = <<>>

FetchCall ==
    fetch_rss(fetch_args.doc, fetch_args.days_back, fetch_args.max_items,
              fetch_args.keywords, FeedTimeout, fetch_args.verbose)

\* fetch_rss returns (recent_entries, status)
FetchReturn ==
    /\ fetch_state = "ready"
    /\ ~FetchCall.raised
    /\ fetch_result' = [entries |-> FetchCall.entries, status |-> FetchCall.status]
    /\ fetch_state' = "returned"
    /\ UNCHANGED <<sumVars, collectVars, cliVars, webVars, fetch_args>>

\* an exception leaves fetch_rss
FetchRaise ==
    /\ fetch_state = "ready"
    /\ FetchCall.raised
    /\ fetch_state' = "raised"
    /\ UNCHANGED <<sumVars, collectVars, cliVars, webVars, fetch_args, fetch_result>>

FetchNext == FetchReturn \/ FetchRaise

----------------------------------------------------------------------------
(* The run command of the command line (src/distil/cli.py) *)

CliBatchSize == 3

\* the command starts: feeds as configured, days at its default, no YouTube
\* URLs, min_items_threshold=1, collect_content otherwise at its defaults
CliInit ==
    /\ SumIdle
    /\ FetchIdle
    /\ WebIdle
    /\ rss_feeds \in FeedLists
    /\ youtube_urls = <<>>
    /\ days_back = DaysBack
    /\ min_items_threshold = 1
    /\ verbose = TRUE
    /\ transcript_dir = <<>>
    /\ cstate = "idle"
    /\ fi = 1
    /\ collected = <<>>
    /\ feed_health_report = <<>>
    /\ fetch_log = <<>>
    /\ threshold_warning = FALSE
    /\ runs = 1
    /\ cli_state = "start"
    /\ exit_code = Absent
    /\ output_file = NoValue

collectLocals == <<transcript_dir, fi, collected, feed_health_report, fetch_log,
                   threshold_warning>>

\* load_config and get_feeds succeed; collect_content is entered
CliLoadConfig ==
    /\ cli_state = "start"
    /\ cli_state' = "collecting"
    /\ cstate' = "feeds"
    /\ UNCHANGED <<sumVars, fetchVars, webVars, collectInputs, collectLocals, exit_code,
                   output_file>>

\* load_config raises FileNotFoundError, which run does not catch
CliConfigMissing ==
    /\ cli_state = "start"
    /\ cli_state' = "crashed"
    /\ exit_code' = 1
    /\ UNCHANGED <<sumVars, fetchVars, webVars, collectVars, output_file>>

ZeroItemsNever(its) == Len(its) < 0

\* len(items) == 0
ZeroItems(its) == Len(its) = 0

\* no items: two lines on stderr, raise typer.Exit(1)
CliNoItems ==
    /\ cli_state = "collecting"
    /\ cstate = "returned"
    /\ ZeroItems(collected)
    /\ cli_state' = "exited"
    /\ exit_code' = 1
    /\ UNCHANGED <<sumVars, fetchVars, webVars, collectVars, output_file>>

\* the model is an ollama model and ensure_ollama_ready fails
CliOllamaFails ==
    /\ cli_state = "collecting"
    /\ cstate = "returned"
    /\ ~ZeroItems(collected)
    /\ cli_state' = "exited"
    /\ exit_code' = 1
    /\ UNCHANGED <<sumVars, fetchVars, webVars, collectVars, output_file>>

\* generate_distil_batched(system_prompt, items, model=model, batch_size=3,
\* reading_time=reading_time) is entered; domain is left at its default
CliGenerate ==
    /\ cli_state = "collecting"
    /\ cstate = "returned"
    /\ ~ZeroItems(collected)
    /\ items' = collected
    /\ batch_size' = CliBatchSize
    /\ reading_time' \in ReadingTimes
    /\ domain' = DefaultDomain
    /\ pc' = "idle"
    /\ cli_state' = "generating"
    /\ UNCHANGED <<fetchVars, webVars, collectVars, streamVars, calls, failures, i,
                   batch_summaries, bstate, ret, exit_code, output_file>>

\* except Exception: raise typer.Exit(1)
CliGenerateFailed ==
    /\ cli_state = "generating"
    /\ bstate = "raised"
    /\ cli_state' = "exited"
    /\ exit_code' = 1
    /\ UNCHANGED <<sumVars, fetchVars, webVars, collectVars, output_file>>

\* output_path.write_text(distil_md), and the command ends
CliSave ==
    /\ cli_state = "generating"
    /\ bstate = "returned"
    /\ output_file' = ret
    /\ cli_state' = "done"
    /\ exit_code' = 0
    /\ UNCHANGED <<sumVars, fetchVars, webVars, collectVars>>

\* mkdir or write_text raises OSError, which run does not catch
CliSaveFails ==
    /\ cli_state = "generating"
    /\ bstate = "returned"
    /\ cli_state' = "crashed"
    /\ exit_code' = 1
    /\ UNCHANGED <<sumVars, fetchVars, webVars, collectVars, output_file>>

\* run: collect_content without YouTube URLs, then generate_distil_batched,
\* whose branch for an empty list is behind the test for zero items
CliNext ==
    \/ CliLoadConfig
    \/ CliConfigMissing
    \/ CollectFeed
    \/ CollectFeedException
    \/ CollectReturn
    \/ CliNoItems
    \/ CliOllamaFails
    \/ CliGenerate
    \/ BatchedSmall
    \/ BatchedBegin
    \/ BatchedNextBatch
    \/ BatchedConsolidate
    \/ GenerateDistilReturn
    \/ GenerateDistilRaise
    \/ CliGenerateFailed
    \/ CliSave
    \/ CliSaveFails

----------------------------------------------------------------------------
(* The web UI (src/distil/web.py): /fetch, /generate, /generate-streaming. *)
(* One /fetch and one generation request may be in progress at a time.     *)

MaxRequests == 3
WebBatchSize == 3
WebFeedTimeout == 15

\* the documents the feeds serve to the web UI's fetches
WebDocs ==
    { Doc(<<Recent(<<"A">>), Undated(<<"a", "b">>)>>, FALSE, 1) }
        \cup { d \in FeedDocs : d.parse_raises }

\* the articles collect_content(feeds, days_back=days, feed_timeout=15,
\* verbose=False) makes of the k-th feed
WebArticles(k, doc) ==
    LET feed_config == [url |-> k, name |-> NoName, keywords |-> <<>>,
                        max_items |-> Absent]
        r == fetch_rss(doc, DaysBack, Absent, <<>>, WebFeedTimeout, FALSE)
    IN IF r.raised THEN <<>>
       ELSE Articles(feed_config, NameOf(feed_config, k), r.entries)

\* what collect_content may return to /fetch: no feeds, or two feeds
WebFetchResults ==
    {<<>>} \cup { WebArticles(1, d1) \o WebArticles(2, d2) : d1, d2 \in WebDocs }

WebInit ==
    /\ SumIdle
    /\ CollectIdle
    /\ FetchIdle
    /\ CliIdle
    /\ WebIdle

GenInFlight == gen_phase \in {"checked", "running"}

\* POST /fetch arrives; collect_content runs in the thread pool
WebFetchStart ==
    /\ requests < MaxRequests
    /\ fetch_req = "idle"
    /\ fetch_req' = "collecting"
    /\ requests' = requests + 1
    /\ overlap' = (overlap \/ GenInFlight)
    /\ UNCHANGED <<sumVars, collectVars, fetchVars, cliVars, cached_items, gen_kind,
                   gen_phase, checked_items, history, fetch_results>>

ReplaceExtends(cache, result) == cache \o result

\* _cached_items, health_report = ...: the global is bound to the new list
Replace(cache, result) == result

\* collect_content has returned: the cache is assigned
WebFetchDone ==
    /\ fetch_req = "collecting"
    /\ \E result \in WebFetchResults :
          /\ cached_items' = Replace(cached_items, result)
          /\ fetch_results' = Append(fetch_results, result)
    /\ fetch_req' = "idle"
    /\ UNCHANGED <<sumVars, collectVars, fetchVars, cliVars, gen_kind, gen_phase,
                   checked_items, history, requests, overlap>>

\* load_config raises in /fetch: the request fails, the cache is as it was
WebFetchFails ==
    /\ fetch_req = "collecting"
    /\ fetch_req' = "idle"
    /\ UNCHANGED <<sumVars, collectVars, fetchVars, cliVars, cached_items, gen_kind,
                   gen_phase, checked_items, history, fetch_results, requests, overlap>>

\* a generation request arrives: if not _cached_items, the error answer
WebCheck(kind) ==
    /\ requests < MaxRequests
    /\ ~GenInFlight
    /\ gen_kind' = kind
    /\ gen_phase' = IF Len(cached_items) = 0 THEN "refused" ELSE "checked"
    /\ checked_items' = cached_items
    /\ requests' = requests + 1
    /\ overlap' = (overlap \/ fetch_req = "collecting")
    /\ UNCHANGED <<sumVars, collectVars, fetchVars, cliVars, cached_items, fetch_req,
                   history, fetch_results>>

WebGenerateCheck == WebCheck("generate")

WebStreamCheck == WebCheck("streaming")

\* the summarizer is called on the value _cached_items has at that moment
WebBegin(kind, dom) ==
    /\ gen_kind = kind
    /\ gen_phase = "checked"
    /\ gen_phase' = "running"
    /\ items' = cached_items
    /\ batch_size' = WebBatchSize
    /\ reading_time' \in ReadingTimes
    /\ domain' = dom
    /\ pc' = "idle"
    /\ gpc' = "none"
    /\ calls' = <<>>
    /\ failures' = failures
    /\ i' = 0
    /\ batch_summaries' = <<>>
    /\ bstate' = "notrun"
    /\ ret' = NoValue
    /\ sstate' = "notrun"
    /\ out' = <<>>
    /\ user_prompt' = <<>>
    /\ batch_summary' = <<>>
    /\ pending' = <<>>
    /\ chunk_count' = 0
    /\ total_chars' = 0
    /\ first_chunk_received' = FALSE
    /\ UNCHANGED <<collectVars, fetchVars, cliVars, cached_items, fetch_req, gen_kind,
                   checked_items, history, fetch_results, requests, overlap>>

\* /generate: generate_distil_batched(system_prompt, _cached_items, ...,
\* batch_size=3, reading_time=reading_time, domain=domain)
WebGenerateBegin == \E dom \in Domains : WebBegin("generate", dom)

\* /generate-streaming: progress_stream is iterated for the first time and
\* calls generate_distil_batched_streaming(system_prompt, _cached_items, ...)
WebStreamBegin == WebBegin("streaming", DefaultDomain)

\* cfg = load_config() raises FileNotFoundError: the request fails
WebConfigMissing ==
    /\ gen_phase = "checked"
    /\ gen_phase' = "failed"
    /\ UNCHANGED <<sumVars, collectVars, fetchVars, cliVars, cached_items, fetch_req,
                   gen_kind, checked_items, history, fetch_results, requests, overlap>>

\* the steps of generate_distil_batched inside /generate
WebBatchedStep ==
    /\ gen_kind = "generate"
    /\ gen_phase = "running"
    /\ BatchedNext

\* the steps of generate_distil_batched_streaming inside progress_stream
WebStreamingStep ==
    /\ gen_kind = "streaming"
    /\ gen_phase = "running"
    /\ StreamingNext

\* a summarization run has ended: its locals are gone (the failures of the
\* service are counted over the whole life of the server)
RunOver ==
    /\ items' = <<>>
    /\ batch_size' = 1
    /\ reading_time' = 5
    /\ domain' = DefaultDomain
    /\ pc' = "done"
    /\ gpc' = "none"
    /\ calls' = <<>>
    /\ failures' = failures
    /\ i' = 0
    /\ batch_summaries' = <<>>
    /\ bstate' = "notrun"
    /\ ret' = NoValue
    /\ sstate' = "notrun"
    /\ out' = <<>>
    /\ user_prompt' = <<>>
    /\ batch_summary' = <<>>
    /\ pending' = <<>>
    /\ chunk_count' = 0
    /\ total_chars' = 0
    /\ first_chunk_received' = FALSE

\* the request is answered
WebEnd(kind, phase, files) ==
    /\ gen_kind = kind
    /\ gen_phase = "running"
    /\ gen_phase' = phase
    /\ history' = files
    /\ RunOver
    /\ UNCHANGED <<collectVars, fetchVars, cliVars, cached_items, fetch_req,
                   gen_kind, checked_items, fetch_results, requests, overlap>>

\* /generate: output_path.write_text(distil_md), the card "Saved to"
WebGenerateSave ==
    /\ bstate = "returned"
    /\ WebEnd("generate", "saved", Append(history, ret))

\* /generate: except Exception: the card "Error generating distil"
WebGenerateError ==
    /\ bstate = "raised"
    /\ WebEnd("generate", "failed", history)

\* /generate-streaming: the generator is exhausted; full_content, all the
\* chunks put together, is written and the event "complete" is sent
WebStreamSave ==
    /\ sstate = "done"
    /\ WebEnd("streaming", "saved", Append(history, Flatten(out)))

\* /generate-streaming: mkdir or write_text raises; except Exception sends
\* the event "error"
WebStreamError ==
    /\ sstate = "done"
    /\ WebEnd("streaming", "failed", history)

WebNext ==
    \/ WebFetchStart
    \/ WebFetchDone
    \/ WebFetchFails
    \/ WebGenerateCheck
    \/ WebStreamCheck
    \/ WebGenerateBegin
    \/ WebStreamBegin
    \/ WebConfigMissing
    \/ WebBatchedStep
    \/ WebStreamingStep
    \/ WebGenerateSave
    \/ WebGenerateError
    \/ WebStreamSave
    \/ WebStreamError

----------------------------------------------------------------------------
(* The specifications: one summarization run; one collection run *)

SumNext == BatchedNext \/ StreamingNext

SumInit == SumStart /\ CollectIdle /\ FetchIdle /\ CliIdle /\ WebIdle

Spec == SumInit /\ [][SumNext]_vars

CollectSpec == CollectInit /\ [][CollectNext]_vars

FetchSpec == FetchInit /\ [][FetchNext]_vars

CliSpec == CliInit /\ [][CliNext]_vars

WebSpec == WebInit /\ [][WebNext]_vars

----------------------------------------------------------------------------
(* What the claims speak of *)

\* the calls of one variant, and those of its first phase
FirstPhase(v) == SelectSeq(CallsBy(v), LAMBDA c : c.kind \in {"single", "batch"})
BatchCalls(v) == SelectSeq(CallsBy(v), LAMBDA c : c.kind = "batch")
ConsolidationCalls(v) == SelectSeq(CallsBy(v), LAMBDA c : c.kind = "consolidation")

\* the items a prompt lists, read back from its text
PromptItems(p) ==
    LET lines == SelectSeq(p, LAMBDA tok : tok.t = "item")
    IN [k \in 1..Len(lines) |->
            [title |-> lines[k].title, link |-> lines[k].link,
             content |-> lines[k].content]]

Covered(v) ==
    LET fp == FirstPhase(v)
    IN Flatten([k \in 1..Len(fp) |-> PromptItems(fp[k].prompt)])

\* the sections of a consolidation prompt, read back from its text
SectionEnd(toks) ==
    IF \E k \in DOMAIN toks : toks[k].t = "batch_summary_header"
       THEN (CHOOSE k \in DOMAIN toks :
                /\ toks[k].t = "batch_summary_header"
                /\ \A j \in 1..(k - 1) : toks[j].t # "batch_summary_header") - 1
       ELSE Len(toks)

RECURSIVE SplitSections(_)
SplitSections(toks) ==
    IF toks = <<>> THEN <<>>
    ELSE LET rest == Tail(toks)
             e == SectionEnd(rest)
         IN <<[head |-> Head(toks), text |-> SubSeq(rest, 1, e)]>>
                \o SplitSections(SubSeq(rest, e + 1, Len(rest)))

Sections(p) == SplitSections(Tail(p))

ExpectedCalls(n, b) ==
    IF n = 0 THEN 0 ELSE IF n <= b THEN 1 ELSE CeilDiv(n, b) + 1

\* the content chunks among yielded chunks: service text, not progress lines
IsContent(chunk) == chunk # <<>> /\ chunk[1].t = "resp"
ContentOf(chunks) == SelectSeq(chunks, IsContent)

\* all fragments the service delivered to a variant, call after call
Delivered(v) ==
    LET cs == CallsBy(v)
    IN Flatten([k \in 1..Len(cs) |-> cs[k].delivered])

----------------------------------------------------------------------------
(* C1: generate_distil_batched issues 0 calls for n = 0, 1 call for        *)
(* 1 <= n <= b and ceil(n/b) + 1 calls for n > b; while it runs it has     *)
(* never issued more than that.                                            *)
C1_CallCount ==
    /\ Len(CallsBy("batched")) <= ExpectedCalls(Len(items), batch_size)
    /\ bstate = "returned" =>
          Len(CallsBy("batched")) = ExpectedCalls(Len(items), batch_size)

C1_Witness ==
    /\ bstate = "returned"
    /\ Len(items) > batch_size
    /\ Len(items) % batch_size # 0
    /\ Len(CallsBy("batched")) = CeilDiv(Len(items), batch_size) + 1

(* C2: the first-phase prompts of either variant are built from            *)
(* consecutive slices of the input: every prompt but the last covers       *)
(* exactly b items, the last between 1 and b, and the slices in call order *)
(* make up the input list (a prefix of it while the phase is running).     *)
C2_ConsecutiveSlices ==
    \A v \in {"batched", "streaming"} :
        LET fp == FirstPhase(v)
            cov == Covered(v)
            n == Len(items)
            done == \/ ConsolidationCalls(v) # <<>>
                    \/ (fp # <<>> /\ fp[1].kind = "single")
        IN /\ Len(cov) <= n
           /\ cov = SubSeq(items, 1, Len(cov))
           /\ \A k \in DOMAIN fp :
                 LET m == Len(PromptItems(fp[k].prompt))
                 IN /\ 1 <= m /\ m <= batch_size
                    /\ k < Len(fp) => m = batch_size
           /\ done =>
                 /\ cov = items
                 /\ Len(fp) = IF n <= batch_size THEN 1 ELSE CeilDiv(n, batch_size)

C2_Witness ==
    /\ bstate = "returned"
    /\ Len(items) > batch_size
    /\ Len(items) % batch_size # 0
    /\ Len(FirstPhase("batched")) >= 2
    /\ Covered("batched") = items

(* C3: at most one service call is in flight, a call starts only when      *)
(* every earlier call has finished, and when a consolidation call starts   *)
(* all ceil(n/b) batch calls of that run have been made and have finished. *)
C3_Sequential ==
    /\ Cardinality(InFlight) <= 1
    /\ \A k \in InFlight : k = Len(calls)
    /\ \A k \in DOMAIN calls :
          calls[k].kind = "consolidation" =>
             LET before == SelectSeq(SubSeq(calls, 1, k - 1),
                              LAMBDA c : c.by = calls[k].by /\ c.kind = "batch")
             IN /\ Len(before) = CeilDiv(Len(items), batch_size)
                /\ \A j \in DOMAIN before : before[j].status # "inflight"

C3_Witness ==
    /\ \E k \in InFlight : calls[k].kind = "consolidation" /\ calls[k].by = "streaming"
    /\ \E k \in DOMAIN calls : calls[k].kind = "consolidation" /\ calls[k].by = "batched"
    /\ Len(items) > 2 * batch_size

(* C4: for n > b the consolidation prompt of generate_distil_batched holds *)
(* exactly ceil(n/b) batch-summary sections, section j being the text the  *)
(* j-th batch call returned, and the returned value is the output of the   *)
(* consolidation call, the last call of the run.                           *)
C4_Consolidation ==
    LET bc == BatchCalls("batched")
        cc == ConsolidationCalls("batched")
        all == CallsBy("batched")
    IN /\ Len(cc) <= 1
       /\ \A k \in DOMAIN cc :
             LET secs == Sections(cc[k].prompt)
             IN /\ Len(secs) = CeilDiv(Len(items), batch_size)
                /\ Len(secs) = Len(bc)
                /\ \A j \in DOMAIN secs :
                      /\ secs[j].head = [t |-> "batch_summary_header", idx |-> j]
                      /\ secs[j].text = Flatten(bc[j].delivered)
                      /\ bc[j].status = "ok"
       /\ (bstate = "returned" /\ Len(items) > batch_size) =>
             /\ Len(cc) = 1
             /\ all[Len(all)].kind = "consolidation"
             /\ ret = Flatten(all[Len(all)].delivered)
             /\ ret = Response(cc[1].prompt)

C4_Witness ==
    /\ bstate = "returned"
    /\ Len(items) > 2 * batch_size
    /\ Len(Sections(ConsolidationCalls("batched")[1].prompt)) >= 3

(* C5: with no items either variant produces only its fixed no-items text  *)
(* and makes no call to the service.                                       *)
C5_NoItems ==
    Len(items) = 0 =>
        /\ calls = <<>>
        /\ bstate \in {"notrun", "returned"}
        /\ bstate = "returned" => ret = NoItemsMsg
        /\ sstate \in {"notrun", "done"}
        /\ sstate = "done" => out = <<NoItemsMsgStreaming>>
        /\ sstate = "notrun" => out = <<>>

C5_Witness ==
    /\ Len(items) = 0
    /\ bstate = "returned"
    /\ sstate = "done"

C7_ByteIdentical ==
    (bstate = "returned" /\ sstate = "done" /\ failures = 0 /\ Len(items) > 0) =>
        Flatten(out) = ret

(* C8: in generate_distil_batched a failed call is the last call of the    *)
(* run (not retried, nothing issued after it), the run ends raised and     *)
(* nothing is returned.                                                    *)
C8_FailurePropagates ==
    LET bc == CallsBy("batched")
    IN /\ \A k \in DOMAIN bc : bc[k].status = "failed" => k = Len(bc)
       /\ (\E k \in DOMAIN bc : bc[k].status = "failed") <=> bstate = "raised"
       /\ bstate = "raised" => (ret = NoValue /\ pc = "idle")
       /\ bstate = "returned" => \A k \in DOMAIN bc : bc[k].status = "ok"

C8_Witness ==
    LET bc == CallsBy("batched")
    IN /\ bstate = "raised"
       /\ Len(bc) >= 2
       /\ bc[Len(bc)].kind = "batch"
       /\ Len(bc) < CeilDiv(Len(items), batch_size)

(* C9 as stated: in the streaming variant a failed call is the last call   *)
(* of the run and the run does not complete normally.                      *)
C9_StreamingAborts ==
    LET sc == CallsBy("streaming")
    IN /\ \A k \in DOMAIN sc : sc[k].status = "failed" => k = Len(sc)
       /\ (\E k \in DOMAIN sc : sc[k].status = "failed") => sstate # "done"

\* the health entry the report holds under a name
HealthOf(name) ==
    (CHOOSE k \in DOMAIN feed_health_report : feed_health_report[k].name = name)

FetchFailed(j) == fetch_log[j].outcome \in {"error", "raised"}

(* C10 as stated: whatever each feed's fetch does, collect_content calls   *)
(* the fetcher once per configured feed in configuration order, goes on    *)
(* after a failure and returns normally with a health entry of status      *)
(* error for every feed whose fetch failed (runs without YouTube URLs).    *)
C10_FailedFeedReported ==
    youtube_urls = <<>> =>
        /\ \A j \in DOMAIN fetch_log : fetch_log[j].feed = j
        /\ Len(fetch_log) <= Len(rss_feeds)
        /\ cstate # "raised"
        /\ cstate = "returned" =>
              /\ Len(fetch_log) = Len(rss_feeds)
              /\ \A j \in DOMAIN fetch_log :
                    FetchFailed(j) =>
                        LET name == NameOf(rss_feeds[j], j)
                        IN /\ \E k \in DOMAIN feed_health_report :
                                 feed_health_report[k].name = name
                           /\ feed_health_report[HealthOf(name)].health.status = "error"

(* C11 as stated: fetch_rss never raises; an exception in the parse call   *)
(* or while an entry's dates, title, link or summary are read gives the    *)
(* pair ([], status) with status error and the exception's message.        *)
C11_NeverRaises ==
    /\ fetch_state # "raised"
    /\ (fetch_state = "returned" /\ fetch_args.doc.parse_raises) =>
          /\ fetch_result.entries = <<>>
          /\ fetch_result.status.status = "error"
          /\ fetch_result.status.message.detail = fetch_args.doc.error

(* C12 as stated: after collect_content over k configured feeds the health *)
(* report returned holds exactly k entries, one for each configured feed.  *)
C12_OneEntryPerFeed ==
    cstate = "returned" =>
        /\ Len(feed_health_report) = Len(rss_feeds)
        /\ \A j \in DOMAIN rss_feeds :
              \E k \in DOMAIN feed_health_report :
                 /\ feed_health_report[k].name = NameOf(rss_feeds[j], j)
                 /\ feed_health_report[k].health.url = rss_feeds[j].url

(* C13: every entry of the health report has                               *)
(* 0 <= filtered_entries <= total_entries, and both counts are 0 for a     *)
(* feed whose outcome is error or empty.                                   *)
C13_FilteredWithinTotal ==
    \A k \in DOMAIN feed_health_report :
        LET h == feed_health_report[k].health
        IN /\ 0 <= h.filtered_entries
           /\ h.filtered_entries <= h.total_entries
           /\ h.status \in {"error", "empty"} =>
                 (h.filtered_entries = 0 /\ h.total_entries = 0)

C13_Witness ==
    /\ cstate = "returned"
    /\ \E k \in DOMAIN feed_health_report :
          LET h == feed_health_report[k].health
          IN /\ 0 < h.filtered_entries
             /\ h.filtered_entries < h.total_entries
             /\ h.keywords # <<>>
    /\ \E k \in DOMAIN feed_health_report :
          feed_health_report[k].health.status = "error"

\* the entries of es at the indices idx, in the order of es
Pick(es, idx) ==
    [n \in 1..Cardinality(idx) |->
        es[CHOOSE k \in idx : Cardinality({j \in idx : j < k}) = n - 1]]

\* an entry's date as an age in days: published, else updated, else now
DateOf(e) ==
    IF e.published # Absent THEN e.published
    ELSE IF e.updated # Absent THEN e.updated ELSE 0

IsUndated(e) == e.published = Absent /\ e.updated = Absent

SummaryOf(e) == IF e.summary.present THEN e.summary.text ELSE Padded(<<>>, 0)

\* what fetch_rss returns for an entry it keeps
Returned(e) ==
    [title |-> e.title.s, link |-> e.link.url, published |-> DateOf(e),
     summary |-> SummaryOf(e)]

ReturnedAll(es) == [k \in DOMAIN es |-> Returned(es[k])]

\* the recency part of C14, for every days_back
C14_OnlyRecent ==
    LET es == fetch_args.doc.entries
        db == fetch_args.days_back
        r == fetch_result
    IN /\ \A k \in DOMAIN r.entries :
             \E j \in DOMAIN es :
                /\ DateOf(es[j]) <= db
                /\ es[j].title.present /\ es[j].link.present
                /\ r.entries[k] = Returned(es[j])
       /\ (\A j \in DOMAIN es : DateOf(es[j]) > db) =>
             /\ r.entries = <<>>
             /\ r.status.total_entries = Len(es)

\* with no keywords and no cap, every entry without a date is returned
C14_UndatedKept ==
    LET es == fetch_args.doc.entries
        r == fetch_result
    IN (fetch_args.keywords = <<>> /\ fetch_args.max_items = Absent) =>
          \A j \in DOMAIN es :
             IsUndated(es[j]) =>
                \E k \in DOMAIN r.entries : r.entries[k] = Returned(es[j])

IsRecent(e) == DateOf(e) <= fetch_args.days_back

\* a keyword occurs, ignoring case, in the title put right before the summary
HitConcatenated(e) ==
    \E k \in DOMAIN fetch_args.keywords :
        Contains(Lower(e.title.s \o SummaryOf(e).s), Lower(fetch_args.keywords[k]))

\* a keyword occurs, ignoring case, in title, one space, summary
HitSpaced(e) ==
    \E k \in DOMAIN fetch_args.keywords :
        Contains(Lower(e.title.s \o <<" ">> \o SummaryOf(e).s),
                 Lower(fetch_args.keywords[k]))

NoCap == fetch_args.max_items = Absent

Qualifying ==
    LET es == fetch_args.doc.entries
    IN Pick(es, {j \in DOMAIN es :
                   /\ IsRecent(es[j])
                   /\ fetch_args.keywords # <<>> => HitSpaced(es[j])})

(* C16 as stated: for every cap max_items = k, k = 0 included, on a feed   *)
(* with at least k qualifying entries, fetch_rss returns exactly k items:  *)
(* the first k qualifying entries in the feed's order.                     *)
C16_ExactlyK ==
    (/\ fetch_state = "returned"
     /\ fetch_args.max_items # Absent
     /\ Len(Qualifying) >= fetch_args.max_items) =>
        fetch_result.entries =
            ReturnedAll(SubSeq(Qualifying, 1, fetch_args.max_items))

(* C17: every item collect_content collects keeps to the content cap of    *)
(* its type: at most 2000 for an article, at most 5000 for a video.        *)
C17_ContentCaps ==
    \A k \in DOMAIN collected :
        /\ collected[k].type = "article" => TextLen(collected[k].content) <= ArticleCap
        /\ collected[k].type = "video" => TextLen(collected[k].content) <= VideoCap

C17_Witness ==
    /\ cstate = "returned"
    /\ \E k \in DOMAIN collected :
          /\ collected[k].type = "article"
          /\ TextLen(collected[k].content) = ArticleCap
    /\ \E k \in DOMAIN collected :
          /\ collected[k].type = "video"
          /\ TextLen(collected[k].content) = VideoCap
    /\ \E k \in DOMAIN collected :
          /\ collected[k].type = "article"
          /\ TextLen(collected[k].content) < ArticleCap

\* the number of article items collected
ArticleCount == Cardinality({k \in DOMAIN collected : collected[k].type = "article"})

\* (feed url, title, link) of the entries the fetcher returned, feed after
\* feed in the order of the calls
FetchedInOrder ==
    Flatten([j \in DOMAIN fetch_log |->
        [k \in DOMAIN fetch_log[j].entries |->
            <<rss_feeds[fetch_log[j].feed].url, fetch_log[j].entries[k].title,
              fetch_log[j].entries[k].link>>]])

(* C18: the list collect_content returns is all article items, feed after  *)
(* feed in configuration order and within a feed in the fetcher's order,   *)
(* then all video items; no video item precedes an article item.           *)
C18_Ordered ==
    cstate = "returned" =>
        /\ \A a, b \in DOMAIN collected :
              (a < b /\ collected[a].type = "video") => collected[b].type = "video"
        /\ \A j \in DOMAIN fetch_log : fetch_log[j].feed = j
        /\ [a \in 1..ArticleCount |->
              <<collected[a].source_url, collected[a].title, collected[a].link>>]
                 = FetchedInOrder
        /\ Len(collected) - ArticleCount =
              (IF youtube_urls = <<>> THEN 0 ELSE Len(transcript_dir))
        /\ \A v \in 1..(Len(collected) - ArticleCount) :
              collected[ArticleCount + v].link = transcript_dir[v].stem

C18_Witness ==
    /\ cstate = "returned"
    /\ Len(collected) - ArticleCount >= 2
    /\ \E a \in 1..ArticleCount : collected[a].source_url = 1
    /\ Cardinality({a \in 1..ArticleCount : collected[a].source_url = 2}) >= 2

\* the articles of the entries the fetcher returned, then the videos of the
\* transcript files when there are YouTube URLs
ItemsOfAnswers ==
    Flatten([j \in DOMAIN fetch_log |->
        Articles(rss_feeds[j], NameOf(rss_feeds[j], j), fetch_log[j].entries)])
      \o (IF youtube_urls = <<>> THEN <<>> ELSE Videos(transcript_dir))

\* the health entry of the j-th fetch
HealthOfAnswer(j) ==
    IF fetch_log[j].outcome = "raised"
       THEN HealthEntry(rss_feeds[j],
                Status("error", "unexpected_error", "AttributeError", 0),
                0, fetch_log[j].fetch_time)
       ELSE HealthEntry(rss_feeds[j], fetch_log[j].status,
                Len(fetch_log[j].entries), fetch_log[j].fetch_time)

RECURSIVE ReportOfAnswers(_)
ReportOfAnswers(n) ==
    IF n = 0 THEN <<>>
    ELSE SetHealth(ReportOfAnswers(n - 1), NameOf(rss_feeds[n], n), HealthOfAnswer(n))

(* C19: min_items_threshold never changes the outcome of collect_content:  *)
(* whatever the threshold, a value above the number of items included, the *)
(* call ends as the feeds' and the transcripts' answers alone decide: it   *)
(* raises only on a transcript file that cannot be parsed, and otherwise   *)
(* returns the items and the health report these answers give.             *)
C19_ThresholdNoEffect ==
    /\ cstate = "raised" =>
          /\ youtube_urls # <<>>
          /\ \E k \in DOMAIN transcript_dir : ~transcript_dir[k].valid
    /\ cstate = "returned" =>
          /\ Len(fetch_log) = Len(rss_feeds)
          /\ collected = ItemsOfAnswers
          /\ feed_health_report = ReportOfAnswers(Len(rss_feeds))

C19_Witness ==
    /\ cstate = "returned"
    /\ Len(collected) >= 1
    /\ min_items_threshold > Len(collected)
    /\ threshold_warning

(* C20: when collection returns zero items the run command leaves with    *)
(* exit status 1, and it does so before the summarizer is called, before   *)
(* any call to the summarization service and before the output file is     *)
(* written.                                                                *)
C20_AbortsOnZeroItems ==
    (cstate = "returned" /\ Len(collected) = 0) =>
        /\ cli_state \in {"collecting", "exited"}
        /\ cli_state = "exited" => exit_code = 1
        /\ cli_state = "collecting" => exit_code = Absent
        /\ bstate = "notrun" /\ pc = "done"
        /\ calls = <<>>
        /\ output_file = NoValue

C20_Witness ==
    /\ cstate = "returned"
    /\ Len(rss_feeds) >= 2
    /\ Len(fetch_log) = Len(rss_feeds)
    /\ Len(collected) = 0
    /\ threshold_warning
    /\ cli_state = "exited"
    /\ exit_code = 1
    /\ calls = <<>>
    /\ output_file = NoValue

\* the call of this run on another document, or with another verbose flag
FetchCallOn(doc, vb) ==
    fetch_rss(doc, fetch_args.days_back, fetch_args.max_items, fetch_args.keywords,
              FeedTimeout, vb)

IsSlow == fetch_args.doc.fetch_time > FeedTimeout

\* the same feed, fetched within the timeout
FastDoc == [fetch_args.doc EXCEPT !.fetch_time = 1]

\* a slow fetch ends as the fast one: same entries, or an exception in both
C21_SameAsFast ==
    /\ (fetch_state = "returned" /\ IsSlow) =>
          /\ ~FetchCallOn(FastDoc, fetch_args.verbose).raised
          /\ fetch_result.entries = FetchCallOn(FastDoc, fetch_args.verbose).entries
          /\ fetch_result.status.total_entries = Len(fetch_args.doc.entries)
    /\ (fetch_state = "raised" /\ IsSlow) =>
          FetchCallOn(FastDoc, fetch_args.verbose).raised

(* C21 as stated: a fetch whose elapsed time exceeds timeout reports       *)
(* status timeout and returns exactly the entries the fast fetch of the    *)
(* same feed with the same days_back, keywords and max_items returns.      *)
C21_AsStated ==
    /\ C21_SameAsFast
    /\ (fetch_state = "returned" /\ IsSlow) => fetch_result.status.status = "timeout"

(* C21 amended: a slow fetch of a feed that parses and holds at least one  *)
(* entry reports status timeout; a slow fetch of a feed without entries    *)
(* reports empty and one whose parse call fails reports error; in every    *)
(* case the entries are those of the fast fetch.                           *)
C21_TimeoutRelabels ==
    /\ C21_SameAsFast
    /\ (fetch_state = "returned" /\ IsSlow) =>
          fetch_result.status.status =
             (IF fetch_args.doc.parse_raises THEN "error"
              ELSE IF Len(fetch_args.doc.entries) = 0 THEN "empty"
              ELSE "timeout")

C21_Witness ==
    /\ fetch_state = "returned"
    /\ IsSlow
    /\ fetch_result.status.status = "timeout"
    /\ Len(fetch_args.doc.entries) = 2
    /\ Len(fetch_result.entries) = 1
    /\ fetch_args.keywords # <<>>

\* the same feed, well-formed
WellFormedDoc == [fetch_args.doc EXCEPT !.bozo = FALSE, !.bozo_exception = ""]

(* C22 as stated: for every feed the parser flags as bozo and that holds   *)
(* entries, fetch_rss returns status warning with the parser's complaint   *)
(* in the message, and the entries the well-formed feed would yield.       *)
C22_BozoWarning ==
    (/\ fetch_state = "returned"
     /\ fetch_args.doc.bozo
     /\ Len(fetch_args.doc.entries) > 0) =>
        /\ fetch_result.status.status = "warning"
        /\ fetch_result.status.message =
              [tag |-> "parsing_issues", detail |-> fetch_args.doc.bozo_exception]
        /\ fetch_result.entries = FetchCallOn(WellFormedDoc, fetch_args.verbose).entries

(* C29 as stated: what fetch_rss returns, entries and status with its      *)
(* message, does not depend on the verbose flag.                           *)
C29_VerboseNoEffect ==
    LET other == FetchCallOn(fetch_args.doc, ~fetch_args.verbose)
    IN /\ fetch_state = "returned" =>
             /\ ~other.raised
             /\ fetch_result.entries = other.entries
             /\ fetch_result.status = other.status
       /\ fetch_state = "raised" => other.raised

\* the feeds fetched so far that go by a name
FetchedAs(name) == {j \in DOMAIN fetch_log : NameOf(rss_feeds[j], j) = name}

\* the status the report shows for the j-th fetch
ReportedStatus(j) ==
    IF fetch_log[j].outcome = "raised" THEN "error" ELSE fetch_log[j].outcome

(* C23: when two configured feeds go by the same display name, the health  *)
(* report holds a single entry for that name, showing the later feed's     *)
(* outcome, and the article items of both feeds are in the item list.      *)
C23_CollisionKeepsLater ==
    /\ \A j \in DOMAIN fetch_log :
          LET name == NameOf(rss_feeds[j], j)
              last == CHOOSE m \in FetchedAs(name) : \A o \in FetchedAs(name) : o <= m
          IN /\ Cardinality({k \in DOMAIN feed_health_report :
                               feed_health_report[k].name = name}) = 1
             /\ feed_health_report[HealthOf(name)].health.url = rss_feeds[last].url
             /\ feed_health_report[HealthOf(name)].health.status = ReportedStatus(last)
             /\ feed_health_report[HealthOf(name)].health.filtered_entries =
                   Len(fetch_log[last].entries)
    /\ \A j \in DOMAIN fetch_log :
          Cardinality({a \in DOMAIN collected :
                          /\ collected[a].type = "article"
                          /\ collected[a].source_url = rss_feeds[j].url})
             = Len(fetch_log[j].entries)

C23_Witness ==
    /\ cstate = "returned"
    /\ Len(rss_feeds) = 2
    /\ rss_feeds[1].name.present
    /\ ~rss_feeds[2].name.present
    /\ NameOf(rss_feeds[1], 1) = NameOf(rss_feeds[2], 2)
    /\ Len(fetch_log[1].entries) >= 1
    /\ fetch_log[2].outcome = "error"
    /\ Len(feed_health_report) = 1
    /\ feed_health_report[1].health.status = "error"
    /\ \E a \in DOMAIN collected :
          collected[a].type = "article" /\ collected[a].source_url = 1

\* the video items are, in order, those of all the files of the directory
AllReingested ==
    /\ Len(collected) - ArticleCount = Len(transcript_dir)
    /\ \A v \in 1..Len(transcript_dir) :
          /\ collected[ArticleCount + v].type = "video"
          /\ collected[ArticleCount + v].link = transcript_dir[v].stem
          /\ collected[ArticleCount + v].content =
                Truncate(transcript_dir[v].text, VideoCap)

PromptsOf(v) == [k \in DOMAIN CallsBy(v) |-> CallsBy(v)[k].prompt]

(* C27 as stated: on the same items, batch_size, reading_time and domain,  *)
(* with a deterministic service and no failing call, the streaming variant *)
(* sends as many calls as the non-streaming variant, with the same user    *)
(* prompt in every position, the consolidation prompt included.            *)
C27_SameRequests ==
    (bstate = "returned" /\ sstate = "done" /\ failures = 0) =>
        PromptsOf("streaming") = PromptsOf("batched")

IsMarker(chunk, name) ==
    /\ Len(chunk) = 1
    /\ chunk[1].t = "marker"
    /\ chunk[1].name = name

(* C30 as stated: every "items processed" count the streaming variant      *)
(* reports after a batch is at most the number of items and is the number  *)
(* of items in the batches completed so far.                               *)
C30_ItemsProcessedCount ==
    \A k \in DOMAIN out :
        IsMarker(out[k], "items_processed") =>
            /\ out[k][1].a <= Len(items)
            /\ out[k][1].b = Len(items)
            /\ k > 1 /\ IsMarker(out[k - 1], "batch_completed")
            /\ out[k][1].a = Min(out[k - 1][1].a * batch_size, Len(items))

\* the list the most recent completed fetch returned (none: the empty cache)
LastFetched ==
    IF fetch_results = <<>> THEN <<>> ELSE fetch_results[Len(fetch_results)]

(* C25: with web requests handled one at a time, the cache is always the   *)
(* list the most recent completed fetch returned (so no generate request   *)
(* modifies or clears it), a running generation summarizes that list, and  *)
(* before the first fetch no service call is issued and nothing runs.      *)
C25_CacheIsLastFetch ==
    /\ cached_items = LastFetched
    /\ (~overlap /\ gen_phase = "running") => items = LastFetched
    /\ fetch_results = <<>> =>
          (calls = <<>> /\ gen_phase \in {"idle", "refused"})

C25_Witness ==
    /\ ~overlap
    /\ Len(fetch_results) = 2
    /\ fetch_results[1] # <<>>
    /\ fetch_results[2] # <<>>
    /\ fetch_results[1] # fetch_results[2]
    /\ gen_phase = "running"
    /\ calls # <<>>
    /\ items = fetch_results[2]

(* C26 as stated: on the web surfaces a history file is saved, and on the  *)
(* CLI the output file is written, only by a run whose summarization calls *)
(* have all succeeded.                                                     *)
C26_FileOnlyOnSuccess ==
    [][ (history' # history \/ output_file' # output_file) =>
            \A k \in DOMAIN calls : calls[k].status = "ok" ]_vars

(* C28 as stated: a /generate-streaming run summarizes the list that       *)
(* passed the request's non-empty check, also when a /fetch interleaves,   *)
(* so no run starts on an empty list and no file is saved for one.         *)
C28_ChecksWhatItSummarizes ==
    /\ (gen_kind = "streaming" /\ gen_phase = "running") =>
          (items = checked_items /\ items # <<>>)
    /\ \A k \in DOMAIN history : history[k] # NoItemsMsgStreaming

====
